---- MODULE Spec2Model ----
(***************************************************************************)
(* Model of the sphere ray tracer (src/raytracer.py, src/vector.py,        *)
(* src/objects.py, src/animation.py).                                      *)
(*                                                                         *)
(* Numbers.  Python floats are modelled as fixed-point numbers: the        *)
(* integer n stands for the real n / Scale.  Scale = 1000 makes EPS        *)
(* (0.001) the unit.  Products and quotients are rounded to the nearest    *)
(* unit, square roots are rounded down.  float('inf') is the value Inf,    *)
(* which is larger than every finite number the model computes and is      *)
(* only ever compared, never used in arithmetic (as in the code).  A       *)
(* float division by zero raises ZeroDivisionError in Python: operators    *)
(* that can raise return a record whose field exc tells whether they did.  *)
(***************************************************************************)
EXTENDS Integers, Sequences, FiniteSets, TLC

\* ------------------------------------------------------------------------
\* Fixed-point arithmetic (the float operations of the source)
\* ------------------------------------------------------------------------

Scale == 1000

Inf == 2000000000

EPS == 1

\* int -> float, as done by float(x) in Vector.__init__ and by mixed arithmetic
ToF(n) == n * Scale

\* float * float, rounded to the nearest unit
FMul(a, b) == (a \div Scale) * b + ((a % Scale) * b + Scale \div 2) \div Scale

\* float / float (b # 0; the callers model the ZeroDivisionError themselves)
FDiv(a, b) ==
    LET n == IF b < 0 THEN -a ELSE a
        d == IF b < 0 THEN -b ELSE b
    IN (n * Scale + d \div 2) \div d

RECURSIVE ISqrtIter(_, _, _)
\* largest r in lo..hi with r * r <= n
ISqrtIter(n, lo, hi) ==
    IF lo >= hi THEN lo
    ELSE LET mid == (lo + hi + 1) \div 2
         IN IF mid * mid <= n THEN ISqrtIter(n, mid, hi)
                              ELSE ISqrtIter(n, lo, mid - 1)

\* math.sqrt on a float >= 0
FSqrt(x) == ISqrtIter(x * Scale, 0, 46340)

RECURSIVE FPowNat(_, _)
\* x ** n for an integer n >= 0, by repeated squaring
FPowNat(x, n) ==
    IF n = 0 THEN Scale
    ELSE LET h == FPowNat(x, n \div 2)
             sq == FMul(h, h)
         IN IF n % 2 = 0 THEN sq ELSE FMul(sq, x)

\* x ** n, x > 0 a float and n an int (r_dot_v ** specular)
FPow(x, n) == IF n >= 0 THEN FPowNat(x, n) ELSE FDiv(Scale, FPowNat(x, -n))

\* int(x): truncation toward zero, result an int
Trunc(x) == IF x >= 0 THEN x \div Scale ELSE -((-x) \div Scale)

Min2(a, b) == IF a < b THEN a ELSE b

Max2(a, b) == IF a > b THEN a ELSE b

\* ------------------------------------------------------------------------
\* Vector (src/vector.py): a triple of floats
\* ------------------------------------------------------------------------

Vector(x, y, z) == <<x, y, z>>

VAdd(v, w) == <<v[1] + w[1], v[2] + w[2], v[3] + w[3]>>

VSub(v, w) == <<v[1] - w[1], v[2] - w[2], v[3] - w[3]>>

\* v * scalar with a float scalar
VMul(v, k) == <<FMul(v[1], k), FMul(v[2], k), FMul(v[3], k)>>

\* k * v with a Python int k (2 * normal, (-1) * direction): exact
VMulInt(v, k) == <<v[1] * k, v[2] * k, v[3] * k>>

\* v / scalar (scalar # 0)
VDiv(v, k) == <<FDiv(v[1], k), FDiv(v[2], k), FDiv(v[3], k)>>

Dot(v, w) == FMul(v[1], w[1]) + FMul(v[2], w[2]) + FMul(v[3], w[3])

Length(v) == FSqrt(Dot(v, v))

\* normalize with a unit vector as the answer for the zero vector
NormalizeUnitX(v) ==
    LET l == Length(v)
    IN IF l = 0 THEN Vector(ToF(1), 0, 0) ELSE VDiv(v, l)

\* lines 118-121: the zero vector when the length is 0, else self / l

Normalize(v) ==
    LET l == Length(v)
    IN IF l = 0 THEN Vector(0, 0, 0) ELSE VDiv(v, l)

\* ------------------------------------------------------------------------
\* Scene objects (src/objects.py)
\* ------------------------------------------------------------------------

\* Sphere.__init__: center a Vector, radius and reflective floats, color a
\* triple of ints, specular an int
Sphere(center, radius, color, specular, reflective) ==
    [center |-> center, radius |-> radius, color |-> color,
     specular |-> specular, reflective |-> reflective]

\* Light.__init__: position is None for an ambient light
Light(l_type, intensity, position) ==
    [l_type |-> l_type, intensity |-> intensity, position |-> position]

\* Python's None as a Light.position
None == <<>>

\* Python's None as a sphere: spheres are identified by their position in the
\* list, 1..Len(spheres)
NoSphere == 0

\* ------------------------------------------------------------------------
\* Intersection (src/raytracer.py)
\* ------------------------------------------------------------------------

\* Roots with the sign of b lost: (b +- sqrt(disc)) / (2a)
RootsSignSlip(a, b, disc) ==
    IF disc < 0 THEN [exc |-> FALSE, t1 |-> Inf, t2 |-> Inf]
    ELSE IF 2 * a = 0 THEN [exc |-> TRUE, t1 |-> Inf, t2 |-> Inf]
    ELSE [exc |-> FALSE,
          t1 |-> FDiv(b + FSqrt(disc), 2 * a),
          t2 |-> FDiv(b - FSqrt(disc), 2 * a)]

\* lines 70-86: the roots from the coefficients; (inf, inf) when disc < 0,
\* ZeroDivisionError when 2a = 0
Roots(a, b, disc) ==
    IF disc < 0 THEN [exc |-> FALSE, t1 |-> Inf, t2 |-> Inf]
    ELSE IF 2 * a = 0 THEN [exc |-> TRUE, t1 |-> Inf, t2 |-> Inf]
    ELSE [exc |-> FALSE,
          t1 |-> FDiv(-b + FSqrt(disc), 2 * a),
          t2 |-> FDiv(-b - FSqrt(disc), 2 * a)]

\* disc = b * b - 4 * a * c
Quadratic(a, b, c) == Roots(a, b, FMul(b, b) - FMul(4 * a, c))

\* a = D.D, b = 2 co.D, c = co.co - r^2 with co = origin - sphere.center
Coefficients(co, direction, radius) ==
    Quadratic(Dot(direction, direction), 2 * Dot(co, direction),
              Dot(co, co) - FMul(radius, radius))

IntersectRaySphere(origin, direction, sphere) ==
    Coefficients(VSub(origin, sphere.center), direction, sphere.radius)

\* KeepRoot without the comparison with the best so far
KeepRootLast(best, i, t, min_t, max_t) ==
    IF min_t < t /\ t < max_t
    THEN [sphere |-> i, t |-> t]
    ELSE best

\* KeepRoot that also replaces the best so far by an equal root
KeepRootOnTie(best, i, t, min_t, max_t) ==
    IF min_t < t /\ t < max_t /\ t <= best.t
    THEN [sphere |-> i, t |-> t]
    ELSE best

\* one root tested against the interval and the best so far
\* (min_t < t < max_t and t < closest_t)
KeepRoot(best, i, t, min_t, max_t) ==
    IF min_t < t /\ t < max_t /\ t < best.t
    THEN [sphere |-> i, t |-> t]
    ELSE best

\* both roots of sphere number i against the best so far
KeepRoots(best, i, r, min_t, max_t) ==
    KeepRoot(KeepRoot(best, i, r.t1, min_t, max_t), i, r.t2, min_t, max_t)

RECURSIVE ClosestLoop(_, _, _, _, _, _, _)

\* one iteration of the for loop, r the roots of sphere number i
ClosestStep(origin, direction, min_t, max_t, spheres, i, best, r) ==
    IF r.exc THEN [exc |-> TRUE, sphere |-> NoSphere, t |-> Inf]
    ELSE ClosestLoop(origin, direction, min_t, max_t, spheres, i + 1,
                     KeepRoots(best, i, r, min_t, max_t))

\* the for loop of closest_intersection from sphere number i on
ClosestLoop(origin, direction, min_t, max_t, spheres, i, best) ==
    IF i > Len(spheres) THEN [exc |-> FALSE, sphere |-> best.sphere, t |-> best.t]
    ELSE ClosestStep(origin, direction, min_t, max_t, spheres, i, best,
                     IntersectRaySphere(origin, direction, spheres[i]))

closest_intersection(origin, direction, min_t, max_t, spheres) ==
    ClosestLoop(origin, direction, min_t, max_t, spheres, 1,
                [sphere |-> NoSphere, t |-> Inf])

\* ------------------------------------------------------------------------
\* Lighting (src/raytracer.py)
\* ------------------------------------------------------------------------

\* the vector toward the light and the upper bound of the shadow test
LVec(light, point) ==
    IF light.l_type = "point" THEN VSub(light.position, point)
                              ELSE light.position

\* TMax without the bound of the point light
TMaxUnbounded(light) == Inf

TMax(light) == IF light.l_type = "point" THEN ToF(1) ELSE Inf

\* the shadow ray of one non-ambient light: the result of closest_intersection
ShadowRay(light, point, normal, spheres) ==
    closest_intersection(VAdd(point, VMul(normal, EPS)), LVec(light, point),
                         EPS, TMax(light), spheres)

\* if n_dot_l > 0: intensity += light.intensity * n_dot_l
Diffuse(intensity, light_intensity, n_dot_l) ==
    IF n_dot_l > 0 THEN intensity + FMul(light_intensity, n_dot_l)
                   ELSE intensity

\* if r_dot_v > 0: intensity += light.intensity * (r_dot_v ** specular)
Highlight(intensity, light_intensity, r_dot_v, specular) ==
    IF r_dot_v > 0 THEN intensity + FMul(light_intensity, FPow(r_dot_v, specular))
                   ELSE intensity

\* r_vec = (2 * normal * normal.dot(l_dir) - l_dir).normalize()
RVec(normal, l_dir) ==
    Normalize(VSub(VMul(VMulInt(normal, 2), Dot(normal, l_dir)), l_dir))

\* the specular term, skipped when specular = -1
Specular(intensity, light_intensity, l_dir, normal, view, specular) ==
    IF specular # -1
    THEN Highlight(intensity, light_intensity,
                   Dot(RVec(normal, l_dir), Normalize(view)), specular)
    ELSE intensity

\* diffuse then specular of one unshadowed light whose direction is l_dir
Phong(intensity, light_intensity, l_dir, normal, view, specular) ==
    Specular(Diffuse(intensity, light_intensity, Dot(normal, l_dir)),
             light_intensity, l_dir, normal, view, specular)

DiffuseSpecular(intensity, light, point, normal, view, specular) ==
    Phong(intensity, light.intensity, Normalize(LVec(light, point)), normal,
          view, specular)

\* Shadowing that ignores the shadow ray's hit
ShadowingIgnored(shadow, intensity, light, point, normal, view, specular) ==
    IF shadow.exc THEN [exc |-> TRUE, intensity |-> intensity]
    ELSE [exc |-> FALSE,
          intensity |-> DiffuseSpecular(intensity, light, point, normal,
                                        view, specular)]

\* what one non-ambient light adds, shadow the outcome of its shadow ray
Shadowing(shadow, intensity, light, point, normal, view, specular) ==
    IF shadow.exc THEN [exc |-> TRUE, intensity |-> intensity]
    ELSE IF shadow.sphere # NoSphere
         THEN [exc |-> FALSE, intensity |-> intensity]
         ELSE [exc |-> FALSE,
               intensity |-> DiffuseSpecular(intensity, light, point, normal,
                                             view, specular)]

\* one iteration of the loop over the lights
LightStep(intensity, light, point, normal, view, specular, spheres) ==
    IF light.l_type = "ambient"
    THEN [exc |-> FALSE, intensity |-> intensity + light.intensity]
    ELSE Shadowing(ShadowRay(light, point, normal, spheres), intensity, light,
                   point, normal, view, specular)

RECURSIVE LightLoop(_, _, _, _, _, _, _, _)

\* r the outcome of the iteration for light number i
LightNext(point, normal, view, specular, spheres, lights, i, r) ==
    IF r.exc THEN r
    ELSE LightLoop(point, normal, view, specular, spheres, lights, i + 1,
                   r.intensity)

LightLoop(point, normal, view, specular, spheres, lights, i, intensity) ==
    IF i > Len(lights) THEN [exc |-> FALSE, intensity |-> intensity]
    ELSE LightNext(point, normal, view, specular, spheres, lights, i,
                   LightStep(intensity, lights[i], point, normal, view,
                             specular, spheres))

compute_lighting(point, normal, view, specular, spheres, lights) ==
    LightLoop(point, normal, view, specular, spheres, lights, 1, 0)

\* ------------------------------------------------------------------------
\* trace_ray (src/raytracer.py): the parts of one invocation
\* ------------------------------------------------------------------------

\* a background that is not black
BackgroundWhite == <<255, 255, 255>>

\* the background color returned when nothing is hit
Background == <<0, 0, 0>>

\* max(0.0, min(1.0, lighting))
ClampLighting(lighting) == Max2(0, Min2(ToF(1), lighting))

\* sphere.color[k] * lighting, three floats
LocalColor(color, lighting) ==
    <<FMul(ToF(color[1]), lighting), FMul(ToF(color[2]), lighting),
      FMul(ToF(color[3]), lighting)>>

\* (min(255, int(c[0])), min(255, int(c[1])), min(255, int(c[2])))
TruncColor(c) ==
    <<Min2(255, Trunc(c[1])), Min2(255, Trunc(c[2])), Min2(255, Trunc(c[3]))>>

\* BaseCase with recursion_depth < 0
BaseCaseStrict(recursion_depth, r) == recursion_depth < 0 \/ r <= 0

\* if recursion_depth <= 0 or r <= 0: the recursion's base case
BaseCase(recursion_depth, r) == recursion_depth <= 0 \/ r <= 0

\* ChildDepth without the decrement
ChildDepthSame(recursion_depth) == recursion_depth

\* the depth handed to the recursive call
ChildDepth(recursion_depth) == recursion_depth - 1

\* (2 * normal * normal.dot(view) - view).normalize()
ReflectedDir(normal, view) ==
    Normalize(VSub(VMul(VMulInt(normal, 2), Dot(normal, view)), view))

\* Blend with the two weights exchanged
BlendSwapped(local_color, reflected_color, r) ==
    <<FMul(local_color[1], r) + FMul(ToF(reflected_color[1]), ToF(1) - r),
      FMul(local_color[2], r) + FMul(ToF(reflected_color[2]), ToF(1) - r),
      FMul(local_color[3], r) + FMul(ToF(reflected_color[3]), ToF(1) - r)>>

\* Blend that drops the reflected color
BlendLocalOnly(local_color, reflected_color, r) == local_color

\* local_color[k] * (1 - r) + reflected_color[k] * r, three floats; the
\* reflected color is a triple of ints
Blend(local_color, reflected_color, r) ==
    <<FMul(local_color[1], ToF(1) - r) + FMul(ToF(reflected_color[1]), r),
      FMul(local_color[2], ToF(1) - r) + FMul(ToF(reflected_color[2]), r),
      FMul(local_color[3], ToF(1) - r) + FMul(ToF(reflected_color[3]), r)>>

\* a trace_ray invocation that has not started its body yet
Frame(origin, direction, min_t, max_t, recursion_depth) ==
    [origin |-> origin, direction |-> direction, min_t |-> min_t,
     max_t |-> max_t, depth |-> recursion_depth, st |-> "call",
     sphere |-> NoSphere, local_color |-> <<0, 0, 0>>]

\* lines 266-304: lit is the outcome of compute_lighting
Shade(f, i, sphere, point, normal, view, lit, local_color) ==
    IF lit.exc THEN [kind |-> "raise"]
    ELSE IF BaseCase(f.depth, sphere.reflective)
         THEN [kind |-> "return", color |-> TruncColor(local_color),
               sphere |-> i, local_color |-> local_color]
         ELSE [kind |-> "recurse", sphere |-> i, local_color |-> local_color,
               child |-> Frame(VAdd(point, VMul(normal, EPS)),
                               ReflectedDir(normal, view), EPS, Inf,
                               ChildDepth(f.depth))]

\* lines 264-273: lighting and local color
Lit(f, i, sphere, point, normal, view, lit) ==
    Shade(f, i, sphere, point, normal, view, lit,
          LocalColor(sphere.color, ClampLighting(lit.intensity)))

\* lines 257-264: normal, view vector, compute_lighting
HitPoint(f, i, sphere, point, normal, view, spheres, lights) ==
    Lit(f, i, sphere, point, normal, view,
        compute_lighting(point, normal, view, sphere.specular, spheres, lights))

\* lines 253-261: point of intersection, normal, view
HitSphere(f, i, sphere, point, spheres, lights) ==
    HitPoint(f, i, sphere, point, Normalize(VSub(point, sphere.center)),
             VMulInt(f.direction, -1), spheres, lights)

\* lines 249-253: hit is the outcome of closest_intersection
Hit(f, hit, spheres, lights) ==
    IF hit.exc THEN [kind |-> "raise"]
    ELSE IF hit.sphere = NoSphere
         THEN [kind |-> "return", color |-> Background, sphere |-> NoSphere,
               local_color |-> <<0, 0, 0>>]
         ELSE HitSphere(f, hit.sphere, spheres[hit.sphere],
                        VAdd(f.origin, VMul(f.direction, hit.t)), spheres, lights)

\* the body of trace_ray up to the recursive call (lines 246-304) for the
\* invocation f: it raises, returns a color, or makes the recursive call
TraceBody(f, spheres, lights) ==
    Hit(f, closest_intersection(f.origin, f.direction, f.min_t, f.max_t, spheres),
        spheres, lights)

\* ------------------------------------------------------------------------
\* Bounds and inputs
\* ------------------------------------------------------------------------

\* longest sphere list and longest light list of a scene
MaxSpheres == 2

MaxLights == 2

\* largest recursion_depth a caller passes (the drivers pass 3)
MaxDepth == 3

\* the spheres scenes are built from: the four colors of the animated scene
\* (the red one is the sphere of the end-to-end scenario) and a sphere whose
\* reflective coefficient exceeds 1
RedSphere == Sphere(Vector(0, -1000, 6000), 1000, <<255, 0, 0>>, 500, 200)

YellowMirror == Sphere(Vector(0, 0, 3000), 1000, <<255, 255, 0>>, 10, 1000)

GreenMirror == Sphere(Vector(0, 0, -3000), 1000, <<0, 255, 0>>, -1, 1000)

BlueMatte == Sphere(Vector(0, 0, 5000), 1000, <<0, 128, 255>>, -1, 0)

WhiteOver == Sphere(Vector(0, 0, 3000), 1000, <<255, 255, 255>>, 10, 2000)

SpherePool == { RedSphere, YellowMirror, GreenMirror, BlueMatte, WhiteOver }

FullAmbient == Light("ambient", 1000, None)

PointLight == Light("point", 600, Vector(0, 0, -8000))

SkyLight == Light("directional", 200, Vector(0, 4000, -3000))

NullLight == Light("directional", 200, Vector(0, 0, 0))

LightPool == { FullAmbient, PointLight, SkyLight, NullLight }

\* the sequences of at most n distinct elements of S
SeqsUpTo(S, n) ==
    UNION { { q \in [1..k -> S] : \A i, j \in 1..k : i # j => q[i] # q[j] }
            : k \in 0..n }

Scenes == SeqsUpTo(SpherePool, MaxSpheres) \X SeqsUpTo(LightPool, MaxLights)

\* the list q without its element number i (q itself for i = 0)
Without(q, i) == SubSeq(q, 1, i - 1) \o SubSeq(q, i + 1, Len(q))

\* the scenes run_animation is called on: the four animated spheres and a
\* fifth one, in two orders, complete or with one sphere left out
AnimOrders ==
    { <<RedSphere, YellowMirror, GreenMirror, BlueMatte, WhiteOver>>,
      <<WhiteOver, BlueMatte, GreenMirror, YellowMirror, RedSphere>> }

AnimSpheres == { Without(q, k) : q \in AnimOrders, k \in 0..5 }

AnimLights == { <<FullAmbient>>, <<PointLight, SkyLight>>, <<NullLight>> }

\* ray origins and directions of the calls made from outside the module
Origins == { Vector(0, 0, 0), Vector(0, 0, 4000) }

Directions ==
    { Vector(0, 0, 1000), Vector(0, 0, -1000), Vector(0, 1000, 0),
      Vector(0, 0, 0) }

MinTs == { 0, EPS, 2500 }

MaxTs == { 4500, Inf }

Depths == -1..MaxDepth

\* shaded points, normals, view vectors and exponents of the calls of
\* compute_lighting; the second point is where the pool's point light is,
\* the fourth has the point light between it and the spheres, the fifth has a
\* sphere two lengths of the directional light's vector away
Points ==
    { Vector(0, 0, 2000), Vector(0, 0, -8000), Vector(0, 0, 6000),
      Vector(0, 0, -9000), Vector(0, -8000, 9000) }

Normals == { Vector(0, 0, -1000), Vector(0, 1000, 0) }

Views == { Vector(0, 0, -1000) }

Speculars == { -1, 10 }

\* the vectors normalize is called on from outside
Receivers ==
    { Vector(0, 0, 0), Vector(0, 0, 1000), Vector(3000, 4000, 0),
      Vector(0, -2000, 0) }

\* largest width and height of a rendered image
MaxSide == 2

\* the drivers' camera, zoom factor and recursion depth
CameraPos == Vector(0, 0, 0)

Fov == 800

DriverDepth == 3

\* the zoom factors render_image is called with: the drivers' and a narrow
\* one (used with the largest image), with which every pixel of a small
\* image looks at the scene's spheres
NarrowFov == 200

Fovs == { Fov, NarrowFov }

\* run_animation: the largest num_frames, and the side of its square frames
\* (600 in the source)
MaxFrames == 3

AnimSide == 2

\* ------------------------------------------------------------------------
\* State
\* ------------------------------------------------------------------------

VARIABLES
    spheres,    \* the scene's sphere list
    lights,     \* the scene's light list
    pc,         \* "idle", "render" in render_image's loops, "trace" in trace_ray
    stack,      \* the active trace_ray invocations, innermost last
    ncalls,     \* trace_ray invocations started by the current primary ray
    ret,        \* what the trace_ray invocation that finished last returned
    call,       \* the call made from outside: operation, arguments, outcome
    pixels,     \* render_image: the finished rows
    row,        \* render_image: the row being filled
    x,          \* render_image: column of the next pixel
    y,          \* render_image: row of the next pixel
    files       \* the images written by save_ppm, in order

vars == <<spheres, lights, pc, stack, ncalls, ret, call, pixels, row, x, y, files>>

image == <<pixels, row, x, y, files>>

NoRet ==
    [kind |-> "none", color |-> <<0, 0, 0>>, depth |-> 0, sphere |-> NoSphere,
     local_color |-> <<0, 0, 0>>, reflected_color |-> <<0, 0, 0>>]

Init ==
    /\ \E sc \in Scenes : spheres = sc[1] /\ lights = sc[2]
    /\ pc = "idle"
    /\ stack = <<>>
    /\ ncalls = 0
    /\ ret = NoRet
    /\ call = [op |-> "none", st |-> "none"]
    /\ pixels = <<>>
    /\ row = <<>>
    /\ x = 0
    /\ y = 0
    /\ files = <<>>

\* ------------------------------------------------------------------------
\* Calls of the pure functions.  A run of the program loads one scene and
\* makes one call from outside the module (call.op = "none" before it).
\* ------------------------------------------------------------------------

CallIntersectRaySphere(origin, direction, i) ==
    /\ pc = "idle" /\ call.op = "none"
    /\ i \in 1..Len(spheres)
    /\ LET r == IntersectRaySphere(origin, direction, spheres[i])
       IN call' = [op |-> "intersect_ray_sphere", origin |-> origin,
                   direction |-> direction, sphere |-> i,
                   st |-> IF r.exc THEN "raised" ELSE "returned", res |-> r]
    /\ UNCHANGED <<spheres, lights, pc, stack, ncalls, ret, image>>

CallClosestIntersection(origin, direction, min_t, max_t) ==
    /\ pc = "idle" /\ call.op = "none"
    /\ LET r == closest_intersection(origin, direction, min_t, max_t, spheres)
       IN call' = [op |-> "closest_intersection", origin |-> origin,
                   direction |-> direction, min_t |-> min_t, max_t |-> max_t,
                   st |-> IF r.exc THEN "raised" ELSE "returned", res |-> r]
    /\ UNCHANGED <<spheres, lights, pc, stack, ncalls, ret, image>>

CallComputeLighting(point, normal, view, specular) ==
    /\ pc = "idle" /\ call.op = "none"
    /\ LET r == compute_lighting(point, normal, view, specular, spheres, lights)
       IN call' = [op |-> "compute_lighting", point |-> point, normal |-> normal,
                   view |-> view, specular |-> specular,
                   st |-> IF r.exc THEN "raised" ELSE "returned", res |-> r]
    /\ UNCHANGED <<spheres, lights, pc, stack, ncalls, ret, image>>

\* v.normalize(): the method assigns no field of v, so the receiver is v
\* afterwards; the division of line 121 is reached only with l # 0
CallNormalize(v) ==
    /\ pc = "idle" /\ call.op = "none"
    /\ call' = [op |-> "normalize", self |-> v, st |-> "returned",
                res |-> Normalize(v), receiver |-> v]
    /\ UNCHANGED <<spheres, lights, pc, stack, ncalls, ret, image>>

\* ------------------------------------------------------------------------
\* trace_ray, one action per step of an invocation
\* ------------------------------------------------------------------------

CallTraceRay(origin, direction, min_t, max_t, recursion_depth) ==
    /\ pc = "idle" /\ call.op = "none"
    /\ pc' = "trace"
    /\ stack' = <<Frame(origin, direction, min_t, max_t, recursion_depth)>>
    /\ ncalls' = 0
    /\ ret' = NoRet
    /\ call' = [op |-> "trace_ray", origin |-> origin, direction |-> direction,
                min_t |-> min_t, max_t |-> max_t, depth |-> recursion_depth,
                st |-> "running"]
    /\ UNCHANGED <<spheres, lights, image>>

\* render_image, lines 108-110: the traced color ends the pixel (x, y)
AppendPixel(color) ==
    /\ IF x + 1 < call.width
       THEN /\ row' = Append(row, color)
            /\ x' = x + 1
            /\ UNCHANGED <<pixels, y>>
       ELSE /\ pixels' = Append(pixels, Append(row, color))
            /\ row' = <<>>
            /\ x' = 0
            /\ y' = y + 1
    /\ UNCHANGED files

\* the innermost invocation returns color: to the invocation below it, to
\* render_image, or to the outside caller
ReturnColor(color) ==
    /\ stack' = SubSeq(stack, 1, Len(stack) - 1)
    /\ IF Len(stack) > 1
       THEN UNCHANGED <<pc, call, image>>
       ELSE IF call.op \in {"render_image", "run_animation"}
            THEN /\ pc' = "render"
                 /\ AppendPixel(color)
                 /\ UNCHANGED call
            ELSE /\ pc' = "idle"
                 /\ call' = [call EXCEPT !.st = "returned"] @@ [res |-> color]
                 /\ UNCHANGED image

\* the innermost invocation f runs its body, with outcome b
Enter(f, b) ==
    /\ f.st = "call"
    /\ ncalls' = ncalls + 1
    /\ CASE b.kind = "raise" ->
              \* the exception unwinds every active invocation, and
              \* render_image with them: nothing catches it
              /\ stack' = <<>>
              /\ pc' = "idle"
              /\ call' = [call EXCEPT !.st = "raised"]
              /\ ret' = [NoRet EXCEPT !.kind = "raise", !.depth = f.depth]
              /\ UNCHANGED image
         [] b.kind = "return" ->
              /\ ReturnColor(b.color)
              /\ ret' = [kind |-> IF b.sphere = NoSphere THEN "background"
                                                        ELSE "local",
                         color |-> b.color, depth |-> f.depth,
                         sphere |-> b.sphere, local_color |-> b.local_color,
                         reflected_color |-> <<0, 0, 0>>]
         [] b.kind = "recurse" ->
              /\ stack' = [stack EXCEPT ![Len(stack)] =
                              [f EXCEPT !.st = "wait", !.sphere = b.sphere,
                                        !.local_color = b.local_color]]
                          \o <<b.child>>
              /\ UNCHANGED <<pc, call, ret, image>>

TraceRayEnter ==
    /\ pc = "trace"
    /\ stack # <<>>
    /\ Enter(stack[Len(stack)], TraceBody(stack[Len(stack)], spheres, lights))
    /\ UNCHANGED <<spheres, lights>>

\* the recursive call has returned: the invocation f blends and returns
BlendReturn(f, color) ==
    /\ f.st = "wait"
    /\ ReturnColor(color)
    /\ ret' = [kind |-> "blend", color |-> color, depth |-> f.depth,
               sphere |-> f.sphere, local_color |-> f.local_color,
               reflected_color |-> ret.color]

Final(f, reflected_color) ==
    TruncColor(Blend(f.local_color, reflected_color, spheres[f.sphere].reflective))

\* TraceRayBlend that keeps the blended color in the sphere it was computed for
TraceRayBlendCaching ==
    /\ pc = "trace"
    /\ stack # <<>>
    /\ stack[Len(stack)].st = "wait"
    /\ BlendReturn(stack[Len(stack)], Final(stack[Len(stack)], ret.color))
    /\ spheres' = [spheres EXCEPT ![stack[Len(stack)].sphere].color =
                       Final(stack[Len(stack)], ret.color)]
    /\ UNCHANGED <<lights, ncalls>>

TraceRayBlend ==
    /\ pc = "trace"
    /\ stack # <<>>
    /\ stack[Len(stack)].st = "wait"
    /\ BlendReturn(stack[Len(stack)], Final(stack[Len(stack)], ret.color))
    /\ UNCHANGED <<spheres, lights, ncalls>>

\* ------------------------------------------------------------------------
\* render_image (src/animation.py) and save_ppm (src/io_scene.py)
\* ------------------------------------------------------------------------

\* sx = (2 * x / width - 1) * aspect * fov, aspect = width / height
ScreenX(col, width, height, fov) ==
    FMul(FMul(FDiv(ToF(2 * col), ToF(width)) - ToF(1),
              FDiv(ToF(width), ToF(height))), fov)

\* ScreenY growing with the row index: the bottom scanline first
ScreenYUp(line, height, fov) ==
    FMul(FDiv(ToF(2 * line), ToF(height)) - ToF(1), fov)

\* sy = (1 - 2 * y / height) * fov
ScreenY(line, height, fov) ==
    FMul(ToF(1) - FDiv(ToF(2 * line), ToF(height)), fov)

\* direction = Vector(sx, sy, 1).normalize()
PixelDirection(col, line, width, height, fov) ==
    Normalize(Vector(ScreenX(col, width, height, fov),
                     ScreenY(line, height, fov), ToF(1)))

\* the frame of the primary ray of pixel (col, line)
PrimaryRay(col, line, c) ==
    Frame(c.camera_pos, PixelDirection(col, line, c.width, c.height, c.fov),
          EPS, Inf, c.depth)

CallRenderImage(width, height, out_filename, fov) ==
    /\ pc = "idle" /\ call.op = "none"
    /\ pc' = "render"
    /\ call' = [op |-> "render_image", width |-> width, height |-> height,
                camera_pos |-> CameraPos, out_filename |-> out_filename,
                fov |-> fov, depth |-> DriverDepth, st |-> "running"]
    /\ pixels' = <<>>
    /\ row' = <<>>
    /\ x' = 0
    /\ y' = 0
    /\ UNCHANGED <<spheres, lights, stack, ncalls, ret, files>>

\* RenderPixel with a recursion budget that the pixels share: the invocations
\* of the pixel before are not given back
RenderPixelSharedBudget ==
    /\ pc = "render"
    /\ y < call.height
    /\ pc' = "trace"
    /\ stack' = <<[PrimaryRay(x, y, call) EXCEPT !.depth = call.depth - ncalls]>>
    /\ ncalls' = 0
    /\ ret' = NoRet
    /\ UNCHANGED <<spheres, lights, call, image>>

\* lines 86-106: the primary ray of the next pixel is handed to trace_ray
RenderPixel ==
    /\ pc = "render"
    /\ y < call.height
    /\ pc' = "trace"
    /\ stack' = <<PrimaryRay(x, y, call)>>
    /\ ncalls' = 0
    /\ ret' = NoRet
    /\ UNCHANGED <<spheres, lights, call, image>>

\* save_ppm(filename, width, height, pixels): header and rows
save_ppm(filename, width, height, rows) ==
    [filename |-> filename, width |-> width, height |-> height, rows |-> rows]

\* line 113: all rows are done, the image is written
RenderSave ==
    /\ pc = "render"
    /\ call.op = "render_image"
    /\ y = call.height
    /\ files' = Append(files, save_ppm(call.out_filename, call.width,
                                       call.height, pixels))
    /\ pc' = "idle"
    /\ call' = [call EXCEPT !.st = "returned"]
    /\ UNCHANGED <<spheres, lights, stack, ncalls, ret, pixels, row, x, y>>

\* ------------------------------------------------------------------------
\* run_animation (src/animation.py)
\* ------------------------------------------------------------------------

\* 2 * math.pi and the parameters of lines 161-165
TwoPi == 6283

BobAmp == 350

OrbitA == 2200

OrbitB == 1300

OrbitY == -200

Phase == 2094

HalfPi == 1571

\* u - u^3/3! + u^5/5! - u^7/7! + u^9/9! for -pi/2 <= u <= pi/2, q the
\* square of u
SinSeries(u, q) ==
    FMul(u, ToF(1) - FMul((q + 3) \div 6, ToF(1) - FMul((q + 10) \div 20,
            ToF(1) - FMul((q + 21) \div 42, ToF(1) - (q + 36) \div 72))))

\* the sine of r, -pi < r <= pi, folded onto -pi/2 .. pi/2
SinFold(r) ==
    IF r > HalfPi THEN SinSeries(2 * HalfPi - r, FMul(2 * HalfPi - r, 2 * HalfPi - r))
    ELSE IF r < -HalfPi
         THEN SinSeries(-(2 * HalfPi) - r, FMul(-(2 * HalfPi) - r, -(2 * HalfPi) - r))
         ELSE SinSeries(r, FMul(r, r))

\* r in 0 .. 2 pi brought to -pi .. pi
SinTurn(r) == IF r > 2 * HalfPi THEN SinFold(r - TwoPi) ELSE SinFold(r)

\* math.sin and math.cos
FSin(angle) == SinTurn(angle % TwoPi)

FCos(angle) == FSin(angle + HalfPi)

\* orbit_ellipse(center, a, b, angle_rad, y)
orbit_ellipse(center, a, b, angle_rad, yy) ==
    Vector(center[1] + FMul(a, FCos(angle_rad)), yy,
           center[3] + FMul(b, FSin(angle_rad)))

\* find_sphere_by_color: the first sphere of that color, or None
find_sphere_by_color(ss, rgb) ==
    IF \E i \in 1..Len(ss) : ss[i].color = rgb
    THEN CHOOSE i \in 1..Len(ss) :
             /\ ss[i].color = rgb
             /\ \A j \in 1..(i - 1) : ss[j].color # rgb
    ELSE NoSphere

\* line 171: t = 2 * math.pi * (i / num_frames)
FrameAngle(i, num_frames) == FMul(TwoPi, FDiv(ToF(i), ToF(num_frames)))

\* line 175: the red sphere's center of the frame
BobCenter(base, t) == Vector(base[1], base[2] + FMul(BobAmp, FSin(t)), base[3])

\* MoveTo that builds a new matte sphere at c in place of sphere number i
MoveToFresh(ss, i, c) ==
    [ss EXCEPT ![i] = Sphere(c, ss[i].radius, ss[i].color, ss[i].specular, 0)]

\* sphere.center = c for sphere number i
MoveTo(ss, i, c) == [ss EXCEPT ![i].center = c]

\* lines 175-184 with c the red sphere's new center: the four assignments
MoveAll(ss, a, t, c) ==
    MoveTo(MoveTo(MoveTo(MoveTo(ss, a.red, c),
                         a.yellow, orbit_ellipse(c, OrbitA, OrbitB, t, OrbitY)),
                  a.green, orbit_ellipse(c, OrbitA, OrbitB, t + Phase, OrbitY)),
           a.blue, orbit_ellipse(c, OrbitA, OrbitB, t + 2 * Phase, OrbitY))

\* FrameCenters that bobs the red sphere from where the frame before left it
FrameCentersDrifting(ss, a) ==
    MoveAll(ss, a, FrameAngle(a.i, a.num_frames),
            BobCenter(ss[a.red].center, FrameAngle(a.i, a.num_frames)))

\* the centers of frame number a.i
FrameCenters(ss, a) ==
    MoveAll(ss, a, FrameAngle(a.i, a.num_frames),
            BobCenter(a.red_base, FrameAngle(a.i, a.num_frames)))

\* line 187: out_path = f"{FRAMES_DIR}/frame_{i}.ppm"
FramePath(i) == <<"frames/frame_", i, ".ppm">>

\* lines 132-156: the four spheres are looked up by color
Targets(ss) ==
    [red |-> find_sphere_by_color(ss, <<255, 0, 0>>),
     yellow |-> find_sphere_by_color(ss, <<255, 255, 0>>),
     green |-> find_sphere_by_color(ss, <<0, 255, 0>>),
     blue |-> find_sphere_by_color(ss, <<0, 128, 255>>)]

\* not all([red, yellow, green, blue])
Missing(tg) ==
    tg.red = NoSphere \/ tg.yellow = NoSphere \/ tg.green = NoSphere
        \/ tg.blue = NoSphere

\* run_animation(spheres, lights, num_frames, fov) up to the loop: with a
\* target missing it prints two lines and returns (None), else it keeps the
\* red sphere's center as the base of the animation.  entry is the scene as
\* it was when the call was made.
CallRunAnimation(num_frames, tg) ==
    /\ pc = "idle" /\ call.op = "none"
    /\ call' = [op |-> "run_animation", num_frames |-> num_frames,
                width |-> AnimSide, height |-> AnimSide,
                camera_pos |-> Vector(0, 0, 0), fov |-> Fov, depth |-> 3,
                out_filename |-> FramePath(0), i |-> 1,
                red |-> tg.red, yellow |-> tg.yellow, green |-> tg.green,
                blue |-> tg.blue,
                red_base |-> IF tg.red = NoSphere THEN Vector(0, 0, 0)
                                                  ELSE spheres[tg.red].center,
                entry |-> [spheres |-> spheres, lights |-> lights],
                printed |-> IF Missing(tg) THEN <<"Erreur">> ELSE <<>>,
                st |-> IF Missing(tg) THEN "returned" ELSE "running",
                res |-> None]
    /\ pc' = IF Missing(tg) THEN "idle" ELSE "anim"
    /\ UNCHANGED <<spheres, lights, stack, ncalls, ret, image>>

\* AnimSave that moves the orbiting spheres on once the frame is written
AnimSaveMoving ==
    /\ pc = "render"
    /\ call.op = "run_animation"
    /\ y = call.height
    /\ files' = Append(files, save_ppm(call.out_filename, call.width,
                                       call.height, pixels))
    /\ call' = [call EXCEPT !.i = call.i + 1,
                            !.printed = Append(call.printed, "OK")]
    /\ spheres' = MoveTo(spheres, call.yellow, spheres[call.red].center)
    /\ pc' = "anim"
    /\ UNCHANGED <<lights, stack, ncalls, ret, pixels, row, x, y>>

\* lines 169-195: the centers of frame i are assigned, then render_image is
\* entered for that frame
AnimFrame ==
    /\ pc = "anim"
    /\ call.i <= call.num_frames
    /\ spheres' = FrameCenters(spheres, call)
    /\ call' = [call EXCEPT !.out_filename = FramePath(call.i)]
    /\ pc' = "render"
    /\ pixels' = <<>>
    /\ row' = <<>>
    /\ x' = 0
    /\ y' = 0
    /\ UNCHANGED <<lights, stack, ncalls, ret, files>>

\* render_image line 113 and run_animation line 197: the frame is written,
\* render_image returns into the loop, the frame is reported
AnimSave ==
    /\ pc = "render"
    /\ call.op = "run_animation"
    /\ y = call.height
    /\ files' = Append(files, save_ppm(call.out_filename, call.width,
                                       call.height, pixels))
    /\ call' = [call EXCEPT !.i = call.i + 1,
                            !.printed = Append(call.printed, "OK")]
    /\ pc' = "anim"
    /\ UNCHANGED <<spheres, lights, stack, ncalls, ret, pixels, row, x, y>>

\* the loop is over: run_animation returns (None)
AnimReturn ==
    /\ pc = "anim"
    /\ call.i > call.num_frames
    /\ call' = [call EXCEPT !.st = "returned"]
    /\ pc' = "idle"
    /\ UNCHANGED <<spheres, lights, stack, ncalls, ret, image>>

Next ==
    \/ \E o \in Origins, d \in Directions, i \in 1..MaxSpheres :
           CallIntersectRaySphere(o, d, i)
    \/ \E o \in Origins, d \in Directions, mn \in MinTs, mx \in MaxTs :
           CallClosestIntersection(o, d, mn, mx)
    \/ \E p \in Points, n \in Normals, v \in Views, sp \in Speculars :
           CallComputeLighting(p, n, v, sp)
    \/ \E v \in Receivers : CallNormalize(v)
    \/ \E d \in Directions, dp \in Depths :
           CallTraceRay(CameraPos, d, EPS, Inf, dp)
    \/ TraceRayEnter
    \/ TraceRayBlend
    \/ \E w \in 1..MaxSide, h \in 1..MaxSide, fv \in Fovs :
           /\ fv = NarrowFov => w = MaxSide /\ h = MaxSide
           /\ CallRenderImage(w, h, "resultat.ppm", fv)
    \/ RenderPixel
    \/ RenderSave

Spec == Init /\ [][Next]_vars

\* the pure functions alone: one call of intersect_ray_sphere,
\* closest_intersection, compute_lighting or Vector.normalize on a scene
NextCalls ==
    \/ \E o \in Origins, d \in Directions, i \in 1..MaxSpheres :
           CallIntersectRaySphere(o, d, i)
    \/ \E o \in Origins, d \in Directions, mn \in MinTs, mx \in MaxTs :
           CallClosestIntersection(o, d, mn, mx)
    \/ \E p \in Points, n \in Normals, v \in Views, sp \in Speculars :
           CallComputeLighting(p, n, v, sp)
    \/ \E v \in Receivers : CallNormalize(v)

SpecCalls == Init /\ [][NextCalls]_vars

\* the tracer alone: one call of trace_ray or render_image on a scene
NextTrace ==
    \/ \E d \in Directions, dp \in Depths :
           CallTraceRay(CameraPos, d, EPS, Inf, dp)
    \/ TraceRayEnter
    \/ TraceRayBlend
    \/ \E w \in 1..MaxSide, h \in 1..MaxSide, fv \in Fovs :
           /\ fv = NarrowFov => w = MaxSide /\ h = MaxSide
           /\ CallRenderImage(w, h, "resultat.ppm", fv)
    \/ RenderPixel
    \/ RenderSave

SpecTrace == Init /\ [][NextTrace]_vars

\* the animation driver: one call of run_animation on a loaded scene
InitAnim ==
    /\ spheres \in AnimSpheres
    /\ lights \in AnimLights
    /\ pc = "idle"
    /\ stack = <<>>
    /\ ncalls = 0
    /\ ret = NoRet
    /\ call = [op |-> "none", st |-> "none"]
    /\ pixels = <<>>
    /\ row = <<>>
    /\ x = 0
    /\ y = 0
    /\ files = <<>>

NextAnim ==
    \/ \E n \in 0..MaxFrames : CallRunAnimation(n, Targets(spheres))
    \/ AnimFrame
    \/ RenderPixel
    \/ TraceRayEnter
    \/ TraceRayBlend
    \/ AnimSave
    \/ AnimReturn

SpecAnim == InitAnim /\ [][NextAnim]_vars

\* ------------------------------------------------------------------------
\* Claims
\* ------------------------------------------------------------------------

Returned(op) == call.op = op /\ call.st = "returned"

\* the roots of sphere number i on the ray of the current call
CallRoots(i) == IntersectRaySphere(call.origin, call.direction, spheres[i])

\* the roots of sphere number i that lie strictly inside (min_t, max_t)
Qualifying(i) ==
    { t \in {CallRoots(i).t1, CallRoots(i).t2} : call.min_t < t /\ t < call.max_t }

AllQualifying == UNION { Qualifying(i) : i \in 1..Len(spheres) }

\* C1: closest_intersection returns the smallest root strictly inside
\* (min_t, max_t) over all spheres and both roots, with a sphere that has that
\* root, and returns (None, +inf) exactly when no root qualifies.
C1_ClosestIsMinimum ==
    Returned("closest_intersection") =>
        /\ (call.res.sphere = NoSphere) <=> (AllQualifying = {})
        /\ AllQualifying = {} => call.res.t = Inf
        /\ AllQualifying # {} =>
              /\ call.res.sphere \in 1..Len(spheres)
              /\ call.res.t \in Qualifying(call.res.sphere)
              /\ \A t \in AllQualifying : call.res.t <= t

\* the nearer sphere comes second in the list and the first one also has a
\* qualifying, farther root
C1_Witness ==
    /\ Returned("closest_intersection")
    /\ call.res.sphere = 2
    /\ \E t \in Qualifying(1) : t > call.res.t

Channel(c) == c \in 0..255

ColorInRange(color) == Channel(color[1]) /\ Channel(color[2]) /\ Channel(color[3])

\* C2: every channel of every color returned by trace_ray, and of every
\* pixel render_image collects and hands to save_ppm, is an integer in
\* 0..255 (the scenes' sphere colors are in 0..255).
C2_ChannelsInRange ==
    /\ ret.kind \in {"background", "local", "blend"} => ColorInRange(ret.color)
    /\ \A k \in 1..Len(row) : ColorInRange(row[k])
    /\ \A j \in 1..Len(pixels) : \A k \in 1..Len(pixels[j]) :
           ColorInRange(pixels[j][k])
    /\ \A n \in 1..Len(files) : \A j \in 1..Len(files[n].rows) :
           \A k \in 1..Len(files[n].rows[j]) : ColorInRange(files[n].rows[j][k])

\* the end-to-end scenario: the red sphere alone, one ambient light of
\* intensity 1.0, the ray from the origin straight down +Z
Scenario ==
    /\ spheres = <<RedSphere>>
    /\ lights = <<FullAmbient>>
    /\ Returned("trace_ray")
    /\ call.origin = Vector(0, 0, 0)
    /\ call.direction = Vector(0, 0, 1000)
    /\ call.min_t = EPS
    /\ call.max_t = Inf

\* C3 as stated: in the scenario trace_ray returns (255, 0, 0) for every
\* recursion depth 0..3.
C3_AlwaysSaturated ==
    Scenario /\ call.depth \in 0..3 => call.res = <<255, 0, 0>>

\* C3 amended: in the scenario trace_ray returns (255, 0, 0) for recursion
\* depth <= 0 and (204, 0, 0) for every depth >= 1 (reflective 0.2 blends the
\* local color with the black background the reflected ray sees).
C3_SaturatedAtDepthZero ==
    Scenario =>
        call.res = IF call.depth <= 0 THEN <<255, 0, 0>> ELSE <<204, 0, 0>>

C3_Witness == Scenario /\ call.depth = 3 /\ call.res = <<204, 0, 0>>

\* the trace_ray invocation that finished last returned a color
Finished == ret.kind \in {"background", "local", "blend"}

\* it hit a sphere
FinishedHit == ret.kind \in {"local", "blend"}

\* C4: when the hit sphere has reflective = 0, trace_ray returns the truncated
\* local color (sphere.color times a lighting in [0, 1]) without a recursive
\* trace; when it has reflective = 1 and recursion_depth > 0, trace_ray returns
\* exactly the color of the recursive reflected trace.
C4_ReflectionBlend ==
    FinishedHit =>
        /\ spheres[ret.sphere].reflective = 0 =>
              /\ ret.kind = "local"
              /\ ret.color = TruncColor(ret.local_color)
              /\ \E l \in 0..ToF(1) :
                     ret.local_color = LocalColor(spheres[ret.sphere].color, l)
        /\ spheres[ret.sphere].reflective = ToF(1) /\ ret.depth > 0 =>
              /\ ret.kind = "blend"
              /\ ret.color = ret.reflected_color

\* a fully reflective sphere whose reflected trace saw another sphere, of a
\* color that differs from its own local color
C4_Witness ==
    /\ ret.kind = "blend"
    /\ spheres[ret.sphere].reflective = ToF(1)
    /\ ret.reflected_color # Background
    /\ ret.reflected_color # TruncColor(ret.local_color)
    /\ ret.color = ret.reflected_color

\* the shadow ray of light number i of the current compute_lighting call
\* hits a sphere
Shadowed(i) ==
    /\ lights[i].l_type # "ambient"
    /\ ShadowRay(lights[i], call.point, call.normal, spheres).sphere # NoSphere

LightingOf(ls) ==
    compute_lighting(call.point, call.normal, call.view, call.specular, spheres, ls)

\* C5: a point or directional light whose shadow ray hits a sphere adds
\* nothing: the intensity is the one computed from the light list without it,
\* so the ambient lights and the lights before and after it contribute as if
\* it were not there.
C5_ShadowPerLight ==
    Returned("compute_lighting") =>
        \A i \in 1..Len(lights) :
            Shadowed(i) =>
                call.res.intensity = LightingOf(Without(lights, i)).intensity

\* one light is shadowed and the other one still lights the point
C5_Witness ==
    /\ Returned("compute_lighting")
    /\ Len(lights) = 2
    /\ \E i \in 1..2 : Shadowed(i)
    /\ call.res.intensity > 0

\* the recursion depth of the primary ray being traced
PrimaryDepth == call.depth

Tracing == call.op \in {"trace_ray", "render_image"}

\* C6: an invocation of trace_ray with recursion_depth <= 0 makes no
\* recursive call, whatever the reflective coefficient of the sphere it hits:
\* it returns the truncated local color, or the background.
C6_DepthZeroNoRecursion ==
    /\ \A k \in 1..Len(stack) : stack[k].st = "wait" => stack[k].depth > 0
    /\ Finished /\ ret.depth <= 0 =>
          /\ ret.kind # "blend"
          /\ ret.kind = "local" => ret.color = TruncColor(ret.local_color)
          /\ ret.kind = "background" => ret.color = <<0, 0, 0>>
    /\ Tracing /\ PrimaryDepth <= 0 => ncalls <= 1 /\ Len(stack) <= 1

\* depth 0 and a fully reflective sphere hit
C6_Witness ==
    /\ Returned("trace_ray")
    /\ call.depth = 0
    /\ ret.kind = "local"
    /\ spheres[ret.sphere].reflective = ToF(1)
    /\ ncalls = 1

\* what is left to do for the current primary ray: two steps for every
\* invocation not yet started, one for every active invocation
Variant == 2 * (Max2(PrimaryDepth, 0) + 1 - ncalls) + Len(stack)

\* C7: one primary ray causes at most max(recursion_depth, 0) + 1 trace_ray
\* invocations: each active invocation waits for exactly one recursive call,
\* made with recursion_depth - 1, and every step of a trace decreases a
\* natural number, so trace_ray terminates.
C7_BoundedRecursion ==
    /\ [](Tracing =>
            /\ ncalls <= Max2(PrimaryDepth, 0) + 1
            /\ Len(stack) <= ncalls + 1
            /\ Variant >= 0
            /\ \A k \in 1..(Len(stack) - 1) :
                   /\ stack[k].st = "wait"
                   /\ stack[k + 1].depth = stack[k].depth - 1)
    /\ [][pc = "trace" => Variant' < Variant]_vars

\* two fully reflective spheres facing each other: the ray bounces between
\* them until the depth is used up
C7_Witness ==
    /\ Returned("trace_ray")
    /\ call.depth = MaxDepth
    /\ ncalls = MaxDepth + 1
    /\ Len(spheres) = 2
    /\ \A i \in 1..2 : spheres[i].reflective = ToF(1)

\* sphere number i lies entirely behind the origin of the current call's ray
Behind(i) ==
    Dot(VSub(spheres[i].center, call.origin), call.direction)
        + FMul(spheres[i].radius, Length(call.direction)) < 0

\* sphere number i does not meet the line of the current call's ray: the
\* distance from its center to the line exceeds its radius
OffLine(i) ==
    /\ Dot(call.direction, call.direction) > 0
    /\ FMul(Dot(VSub(call.origin, spheres[i].center),
                VSub(call.origin, spheres[i].center))
              - FMul(spheres[i].radius, spheres[i].radius),
            Dot(call.direction, call.direction))
       > FMul(Dot(VSub(call.origin, spheres[i].center), call.direction),
              Dot(VSub(call.origin, spheres[i].center), call.direction))

Away(i) == Behind(i) \/ OffLine(i)

AwayFromAll ==
    /\ Returned("closest_intersection")
    /\ call.min_t >= 0
    /\ \A i \in 1..Len(spheres) : Away(i)

AllBlack(rows) ==
    \A j \in 1..Len(rows) : \A k \in 1..Len(rows[j]) : rows[j][k] = <<0, 0, 0>>

\* C9: with an empty sphere list trace_ray returns (0, 0, 0) for every ray,
\* light list and depth, and every pixel render_image collects and writes is
\* (0, 0, 0).
C9_EmptySceneIsBlack ==
    spheres = <<>> =>
        /\ Tracing => call.st # "raised"
        /\ Finished => ret.kind = "background" /\ ret.color = <<0, 0, 0>>
        /\ Returned("trace_ray") => call.res = <<0, 0, 0>>
        /\ AllBlack(pixels) /\ AllBlack(<<row>>)
        /\ \A n \in 1..Len(files) : AllBlack(files[n].rows)
        /\ Returned("render_image") =>
              /\ files # <<>>
              /\ Len(files[1].rows) = call.height
              /\ \A j \in 1..call.height : Len(files[1].rows[j]) = call.width

\* an image of an empty scene with lights has been written
C9_Witness ==
    /\ spheres = <<>>
    /\ lights # <<>>
    /\ Returned("render_image")
    /\ Len(files) = 1
    /\ Len(files[1].rows) = MaxSide
    /\ Len(files[1].rows[1]) = MaxSide

\* C10: intersect_ray_sphere, closest_intersection and compute_lighting
\* never raise, also for a zero-length ray direction.
C10_NeverRaise ==
    call.op \in {"intersect_ray_sphere", "closest_intersection", "compute_lighting"}
        => call.st # "raised"

\* C11: a numeric failure while one pixel is computed never aborts
\* render_image: the call does not end with an exception, and once it has
\* returned the complete width x height image has been handed to save_ppm.
C11_BadPixelNeverAborts ==
    call.op = "render_image" =>
        /\ call.st # "raised"
        /\ call.st = "returned" =>
              /\ Len(files) = 1
              /\ Len(files[1].rows) = call.height
              /\ \A j \in 1..call.height : Len(files[1].rows[j]) = call.width

\* C12: Vector.normalize applied to the zero vector returns the zero vector
\* (0, 0, 0) without raising, and leaves the receiver as it was.
C12_NormalizeZeroIsZero ==
    call.op = "normalize" /\ call.self = Vector(0, 0, 0) =>
        /\ call.st = "returned"
        /\ call.res = Vector(0, 0, 0)
        /\ call.receiver = Vector(0, 0, 0)

\* the zero vector has been normalized
C12_Witness ==
    /\ Returned("normalize")
    /\ call.self = Vector(0, 0, 0)
    /\ call.res = Vector(0, 0, 0)

\* one of the four animated spheres is absent from the scene the current
\* run_animation call was made on
TargetAbsent ==
    /\ call.op = "run_animation"
    /\ Missing(Targets(call.entry.spheres))

\* C13: when one of the four target spheres is absent, run_animation does
\* not crash and its caller gets a signal a successful run does not give: a
\* successful run returns None, so the signal is another return value or an
\* exception raised for the caller to handle.
C13_SetupFailureSignalled ==
    TargetAbsent =>
        /\ call.st \in {"returned", "raised"}
        /\ call.st = "returned" => call.res # None

\* a frame of the animation is being rendered
InFrame == call.op = "run_animation" /\ pc \in {"render", "trace"}

\* the centers of the scene's spheres, in list order
Centers(ss) == [k \in 1..Len(ss) |-> ss[k].center]

\* C14: render-then-mutate.  While a frame's render is in progress no sphere
\* center is reassigned: every step taken inside render_image leaves the
\* sphere list as it is, so every pixel of the frame is traced against the
\* same centers, and the centers change only in the step that starts the next
\* frame, taken after render_image has returned (the previous frame is
\* written).
C14_RenderThenMutate ==
    [][/\ InFrame => Centers(spheres') = Centers(spheres)
       /\ Centers(spheres') # Centers(spheres) =>
              /\ pc = "anim" /\ pc' = "render"
              /\ Len(files) = call.i - 1
              /\ pixels' = <<>> /\ row' = <<>>]_vars

\* the second frame has been written with centers that differ from those of
\* the first frame's start: a mutation took place between two renders
C14_Witness ==
    /\ call.op = "run_animation"
    /\ Len(files) = 2
    /\ Len(files[2].rows) = AnimSide
    /\ Centers(spheres) # Centers(call.entry.spheres)
    /\ \E n \in 1..2 : ~AllBlack(files[n].rows)

\* the four spheres run_animation found by color at entry
TargetSet(a) == {a.red, a.yellow, a.green, a.blue}

\* sphere s with its center put back to c
Recentered(s, c) == [s EXCEPT !.center = c]

\* C16: run_animation changes nothing in the scene except the center of the
\* four target spheres it found by color.  At every point of the call, after
\* any number of frames, both lists have the length and order they had at
\* entry, every light is as at entry, every sphere has its radius, color,
\* specular and reflective of entry, and every sphere other than the four
\* targets has its center of entry.
C16_OnlyTargetCentersChange ==
    call.op = "run_animation" =>
        /\ lights = call.entry.lights
        /\ Len(spheres) = Len(call.entry.spheres)
        /\ \A k \in 1..Len(spheres) :
               /\ Recentered(spheres[k], call.entry.spheres[k].center)
                      = call.entry.spheres[k]
               /\ k \notin TargetSet(call) =>
                      spheres[k].center = call.entry.spheres[k].center

\* two frames are done in a scene of five spheres: the four targets have
\* moved, the fifth sphere has not
C16_Witness ==
    /\ call.op = "run_animation"
    /\ Len(files) = 2
    /\ Len(spheres) = 5
    /\ \A k \in TargetSet(call) :
           spheres[k].center # call.entry.spheres[k].center
    /\ \E k \in 1..5 : k \notin TargetSet(call)

\* the operations that trace
TracingOps == {"trace_ray", "compute_lighting", "closest_intersection",
               "render_image"}

\* C15: tracing is read-only on the scene.  Every step of trace_ray,
\* compute_lighting, closest_intersection and render_image leaves the sphere
\* list and the light list as they are: every field of every sphere and
\* light, and the order and length of both lists.
C15_TracingIsReadOnly ==
    [][call'.op \in TracingOps => spheres' = spheres /\ lights' = lights]_vars

\* an image has been rendered in which a ray hit a sphere, was lit through a
\* shadow test and was reflected, in a scene of two spheres and two lights
C15_Witness ==
    /\ Returned("render_image")
    /\ Len(spheres) = 2
    /\ Len(lights) = 2
    /\ ret.kind = "blend"
    /\ \E k \in 1..2 : lights[k].l_type = "point"
    /\ ~AllBlack(files[1].rows)

RECURSIVE TraceValue(_, _, _)

\* the local color blended with the outcome of the reflected trace
BlendValue(b, reflected, ss) ==
    IF reflected.exc THEN reflected
    ELSE [exc |-> FALSE,
          color |-> TruncColor(Blend(b.local_color, reflected.color,
                                     ss[b.sphere].reflective))]

\* the outcome of an invocation whose body had the outcome b
BodyValue(b, ss, ls) ==
    IF b.kind = "raise" THEN [exc |-> TRUE, color |-> <<0, 0, 0>>]
    ELSE IF b.kind = "return" THEN [exc |-> FALSE, color |-> b.color]
    ELSE BlendValue(b, TraceValue(b.child, ss, ls), ss)

\* trace_ray as a function of its arguments alone: the frame f and the scene
TraceValue(f, ss, ls) == BodyValue(TraceBody(f, ss, ls), ss, ls)

\* the color of pixel (col, line) as a function of (x, y, width, height, fov,
\* camera_pos, spheres, lights, recursion_depth) and of nothing else
PixelValue(col, line, width, height, fov, camera_pos, ss, ls, recursion_depth) ==
    TraceValue(Frame(camera_pos,
                     Normalize(Vector(ScreenX(col, width, height, fov),
                                      ScreenY(line, height, fov), ToF(1))),
                     EPS, Inf, recursion_depth), ss, ls)

\* the pixel at column k of row number j of the rows collected by the
\* current render_image call is the value of that function
IsPixelValue(color, k, j) ==
    PixelValue(k - 1, j - 1, call.width, call.height, call.fov,
               call.camera_pos, spheres, lights, call.depth)
        = [exc |-> FALSE, color |-> color]

\* C17: pixels are independent.  With the scene fixed, every pixel
\* render_image collects, whatever was computed before it in the row-major
\* loop, is the value of one function of (x, y, width, height, fov,
\* camera_pos, spheres, lights, recursion_depth), and so is every pixel of
\* the image it hands to save_ppm: computing the pixels in another order
\* gives the same image.
C17_PixelsIndependent ==
    call.op = "render_image" =>
        /\ pc = "render" /\ row # <<>> =>
               IsPixelValue(row[Len(row)], Len(row), Len(pixels) + 1)
        /\ \A n \in 1..Len(files) : \A j \in 1..Len(files[n].rows) :
               \A k \in 1..Len(files[n].rows[j]) :
                   IsPixelValue(files[n].rows[j][k], k, j)

\* an image of four pixels of four different colors, none of them the
\* background, whose last pixel came out of reflections
C17_Witness ==
    /\ Returned("render_image")
    /\ call.width = 2 /\ call.height = 2
    /\ Cardinality({ files[1].rows[j][k] : j \in 1..2, k \in 1..2 }
                       \cup {<<0, 0, 0>>}) = 5
    /\ ret.kind = "blend"

\* the primary ray of the pixel render_image is tracing
Primary == stack[1]

\* C18: the image render_image passes to save_ppm has exactly height rows of
\* exactly width pixels, in row-major order: the pixel being traced is the
\* one of column Len(row) of row Len(pixels), its ray leaves the camera
\* through (sx, sy, 1) of that column and row with min_t = EPS and
\* max_t = +inf, row 0 is the top scanline (sy decreases from fov as the row
\* index grows) and column 0 the leftmost (sx grows with the column index).
C18_RowMajorTopFirst ==
    call.op = "render_image" =>
        /\ pc = "trace" =>
              /\ x = Len(row) /\ x < call.width
              /\ y = Len(pixels) /\ y < call.height
              /\ Primary.origin = call.camera_pos
              /\ Primary.min_t = EPS
              /\ Primary.max_t = Inf
              /\ Primary.direction =
                     Normalize(Vector(ScreenX(x, call.width, call.height, call.fov),
                                      ScreenY(y, call.height, call.fov), ToF(1)))
        /\ \A j \in 1..Len(pixels) : Len(pixels[j]) = call.width
        /\ call.st = "returned" =>
              /\ Len(files) = 1
              /\ files[1].width = call.width /\ files[1].height = call.height
              /\ Len(files[1].rows) = call.height
              /\ \A j \in 1..call.height : Len(files[1].rows[j]) = call.width
        /\ ScreenY(0, call.height, call.fov) = call.fov
        /\ \A line \in 1..(call.height - 1) :
               ScreenY(line, call.height, call.fov)
                   < ScreenY(line - 1, call.height, call.fov)
        /\ ScreenX(0, call.width, call.height, call.fov) < 0
        /\ \A col \in 1..(call.width - 1) :
               ScreenX(col, call.width, call.height, call.fov)
                   > ScreenX(col - 1, call.width, call.height, call.fov)

\* a written image of the largest size whose rows differ and whose columns
\* differ, so that a pixel put elsewhere would show
C18_Witness ==
    /\ Returned("render_image")
    /\ call.width = MaxSide /\ call.height = MaxSide
    /\ files[1].rows[1] # files[1].rows[MaxSide]
    /\ \A j \in 1..MaxSide : files[1].rows[j][1] # files[1].rows[j][MaxSide]

\* the origin of the shadow rays of the current compute_lighting call
ShadowOrigin == VAdd(call.point, VMul(call.normal, EPS))

\* the roots of sphere number j along the vector toward light number i
ShadowRoots(i, j) ==
    IntersectRaySphere(ShadowOrigin, LVec(lights[i], call.point), spheres[j])

\* a root that counts for the shadow test of a light of type l_type
Blocks(t, l_type) ==
    IF l_type = "point" THEN EPS < t /\ t < ToF(1) ELSE EPS < t /\ t < Inf

\* light number i is shadowed by sphere number j
BlockedBy(i, j) ==
    \/ Blocks(ShadowRoots(i, j).t1, lights[i].l_type)
    \/ Blocks(ShadowRoots(i, j).t2, lights[i].l_type)

InShadow(i) == \E j \in 1..Len(spheres) : BlockedBy(i, j)

\* what light number i adds to the intensity of the current call
Contribution(i) ==
    IF lights[i].l_type = "ambient" THEN lights[i].intensity
    ELSE IF InShadow(i) THEN 0
    ELSE DiffuseSpecular(0, lights[i], call.point, call.normal, call.view,
                         call.specular)

RECURSIVE Contributions(_)

\* the contributions of lights 1..n added up
Contributions(n) == IF n = 0 THEN 0 ELSE Contributions(n - 1) + Contribution(n)

\* all roots of sphere number j on the shadow ray of light number i lie at or
\* beyond the light
BeyondLight(i, j) ==
    /\ ShadowRoots(i, j).t1 >= ToF(1) /\ ShadowRoots(i, j).t1 < Inf
    /\ ShadowRoots(i, j).t2 >= ToF(1) /\ ShadowRoots(i, j).t2 < Inf

\* all roots of sphere number j lie at or behind the shaded point
BehindPoint(i, j) ==
    ShadowRoots(i, j).t1 <= EPS /\ ShadowRoots(i, j).t2 <= EPS

\* C19: the shadow test of a point light counts only the spheres hit at a
\* parameter t with EPS < t < 1 along the unnormalized vector
\* light.position - point, that of a directional light every sphere hit at
\* t > EPS along the stored direction: compute_lighting returns the sum of
\* the ambient intensities and of the diffuse and specular terms of exactly
\* the lights no such hit shadows.  A sphere whose roots are all >= 1
\* (beyond a point light) or all <= EPS (behind the shaded point) shadows
\* nothing.
C19_ShadowRange ==
    Returned("compute_lighting") =>
        /\ call.res.intensity = Contributions(Len(lights))
        /\ \A i \in 1..Len(lights) : lights[i].l_type # "ambient" =>
               (Shadowed(i) <=> InShadow(i))
        /\ \A i \in 1..Len(lights) :
               /\ lights[i].l_type = "point"
               /\ \A j \in 1..Len(spheres) : BeyondLight(i, j) \/ BehindPoint(i, j)
               => ~Shadowed(i)

\* a point light that lights the point although a sphere is on the line
\* beyond it
C19_Witness ==
    /\ Returned("compute_lighting")
    /\ \E i \in 1..Len(lights) :
           /\ lights[i].l_type = "point"
           /\ \E j \in 1..Len(spheres) : BeyondLight(i, j)
           /\ ~Shadowed(i)
           /\ Contribution(i) > 0
           /\ call.res.intensity >= Contribution(i)

\* the smallest qualifying root of the current closest_intersection call
MinRoot == CHOOSE t \in AllQualifying : \A u \in AllQualifying : t <= u

\* the spheres that have a qualifying root equal to the minimum
Nearest == { i \in 1..Len(spheres) : MinRoot \in Qualifying(i) }

\* C20: when two or more spheres have a qualifying root equal to the minimum
\* t, closest_intersection returns the one that comes first in the sphere
\* list: the returned root is a qualifying root of the returned sphere, no
\* sphere before it in the list has a qualifying root that small, and no
\* sphere after it has a smaller one (a later sphere replaces the best so far
\* only with a strictly smaller root).
C20_FirstInListWinsTies ==
    Returned("closest_intersection") /\ call.res.sphere # NoSphere =>
        /\ call.res.t \in Qualifying(call.res.sphere)
        /\ \A i \in 1..(call.res.sphere - 1) :
               \A t \in Qualifying(i) : call.res.t < t
        /\ \A i \in (call.res.sphere + 1)..Len(spheres) :
               \A t \in Qualifying(i) : call.res.t <= t

\* two spheres with the same nearest root, and the first one is returned
C20_Witness ==
    /\ Returned("closest_intersection")
    /\ AllQualifying # {}
    /\ Nearest = {1, 2}
    /\ call.res.sphere = 1
    /\ spheres[1].center # spheres[2].center

\* the frame whose centers the scene holds: the one being rendered, or the
\* one rendered last
LastFrame == IF InFrame THEN call.i ELSE call.i - 1

\* the red sphere as it was when run_animation was called
EntryRed == call.entry.spheres[call.red].center

\* (x - cx)^2 / a^2 + (z - cz)^2 / b^2 for point p and center c
EllipseForm(p, c) ==
    FMul(FDiv(p[1] - c[1], OrbitA), FDiv(p[1] - c[1], OrbitA))
        + FMul(FDiv(p[3] - c[3], OrbitB), FDiv(p[3] - c[3], OrbitB))

\* p is at height orbit_y on the ellipse of axes a and b centred on c's x
\* and z, to the precision of the arithmetic
OnOrbit(p, c) ==
    /\ p[2] = OrbitY
    /\ EllipseForm(p, c) >= ToF(1) - 10 * EPS
    /\ EllipseForm(p, c) <= ToF(1) + 10 * EPS

\* C21: the animation does not drift.  Once the centers of a frame have been
\* assigned, the red sphere's x and z are those it had when run_animation was
\* called and its y is its y of entry plus bob_amp * sin(t) for the frame's
\* t, whatever the frames before did; the yellow, green and blue spheres are
\* at y = orbit_y on the ellipse centred on the red sphere's current x and
\* z, whatever their positions were at entry.
C21_NoDrift ==
    call.op = "run_animation" /\ ~TargetAbsent /\ LastFrame >= 1 =>
        /\ spheres[call.red].center[1] = EntryRed[1]
        /\ spheres[call.red].center[3] = EntryRed[3]
        /\ spheres[call.red].center[2] =
               EntryRed[2] + FMul(BobAmp, FSin(FrameAngle(LastFrame, call.num_frames)))
        /\ \A k \in {call.yellow, call.green, call.blue} :
               OnOrbit(spheres[k].center, spheres[call.red].center)

\* the second frame of three is in place: the red sphere is off its base
\* height, as it was in the first frame, and an orbiting sphere that was not
\* at orbit_y at entry is now
C21_Witness ==
    /\ call.op = "run_animation" /\ ~TargetAbsent
    /\ call.num_frames = 3
    /\ LastFrame = 2
    /\ spheres[call.red].center[2] # EntryRed[2]
    /\ call.entry.spheres[call.yellow].center[2] # OrbitY
    /\ ~OnOrbit(call.entry.spheres[call.yellow].center, EntryRed)

\* a run_animation call made on a scene that has the four target spheres
Animating == call.op = "run_animation" /\ ~TargetAbsent

\* the frames written so far are frame_1, frame_2, ... in that order, never
\* more than num_frames of them
FramesInOrder ==
    /\ Len(files) <= call.num_frames
    /\ \A k \in 1..Len(files) : files[k].filename = FramePath(k)

\* a frame is rendered only once its own centers have been assigned: the
\* frame in progress is the one after the frames written, and the scene is
\* not the scene as loaded
RenderedAfterUpdate ==
    InFrame =>
        /\ call.i = Len(files) + 1
        /\ call.out_filename = FramePath(call.i)
        /\ Centers(spheres) # Centers(call.entry.spheres)

\* the call is over, by a return or by an exception
Ended == call.st \in {"returned", "raised"}

\* C22: run_animation with num_frames = N >= 0 and the four targets present
\* renders exactly N frames: the frames are written as frame_1 .. frame_N in
\* increasing order, each after its own center updates, and when the call is
\* over N frames have been written; with N = 0 no sphere is moved and no
\* frame is written.
C22_ExactlyNFrames ==
    Animating =>
        /\ FramesInOrder
        /\ RenderedAfterUpdate
        /\ Ended => Len(files) = call.num_frames
        /\ call.num_frames = 0 => spheres = call.entry.spheres /\ files = <<>>

====
